---- MODULE Spec2Model ----
(***************************************************************************)
(* State-machine model of genSTEM/Model.py: the ImageModel constructor     *)
(* (source check, field assignment, create_probe_positions and             *)
(* create_parameters), the two synthesis methods generate and              *)
(* generate_cupy_ram, the artifact generators add_line_jitter and          *)
(* add_drift, and the driver get_rotation_series.                          *)
(*                                                                         *)
(* Arithmetic is exact.  Atom coordinates, margin and pixel size are       *)
(* integers.  An array of shape (2, H, W) is a sequence of two channels,   *)
(* each a sequence of H rows of W entries.  Every coordinate and           *)
(* displacement that belongs to a grid of H*W pixels is stored as its      *)
(* numerator over the common denominator Den = 2*H*W, which makes the      *)
(* division of drift_speed by the pixel count, the mean used by the scan   *)
(* rotation and the halving in the recentring exact.  Scan angles are      *)
(* multiples of 90 degrees, so the rotation matrix has entries -1, 0, 1.   *)
(* A draw of the random generator is one of finitely many values.          *)
(***************************************************************************)
EXTENDS Integers, Sequences, FiniteSets, TLC

VARIABLES
    pc,          \* position in ImageModel.__init__ / life of the instance
    args,        \* the arguments of the latest ImageModel(...) call
    self,        \* the instance's attributes (name -> value), as assigned so far
    err,         \* the exception raised by the constructor, "none" if none
    stepLog,     \* artifact steps of create_probe_positions that ran, in order
    jitter,      \* the field add_line_jitter returned (local of create_probe_positions)
    drift,       \* the field add_drift returned (local of create_probe_positions)
    jitterCalls, \* number of calls of add_line_jitter
    rngDraws,    \* number of random numbers drawn by the array generator
    ret,         \* images returned by generate / generate_cupy_ram, latest last
    spc,         \* position in get_rotation_series
    sargs,       \* arguments of the running get_rotation_series call
    random_angle,\* local random_angle of get_rotation_series
    angleDraws,  \* number of np.random.random() calls made by get_rotation_series
    members,     \* keyword arguments of every ImageModel built by the series
    images,      \* local list images of get_rotation_series
    sret         \* value returned by get_rotation_series

vars == <<pc, args, self, err, stepLog, jitter, drift, jitterCalls, rngDraws, ret,
          spc, sargs, random_angle, angleDraws, members, images, sret>>

ctorVars == <<pc, args, self, err, stepLog, jitter, drift, jitterCalls, rngDraws, ret>>
seriesVars == <<spc, sargs, random_angle, angleDraws, members, images, sret>>

----------------------------------------------------------------------------
(* Bounds of the model *)

MaxAtoms == 2      \* atoms in a structure
MaxCalls == 2      \* generate / generate_cupy_ram calls on one instance
MaxFactor == 2     \* factors m by which a drift speed is multiplied

----------------------------------------------------------------------------
(* Input domains *)

Coords == {0, 1}
AtomicNumbers == {1, 2}
Structures ==
    UNION {[1..n -> Coords \X Coords \X AtomicNumbers] : n \in 0..MaxAtoms}

None == [kind |-> "None", rows |-> <<>>, numbers |-> <<>>]

PositionsOf(s) == [i \in 1..Len(s) |-> <<s[i][1], s[i][2]>>]
NumbersOf(s) == [i \in 1..Len(s) |-> s[i][3]]

\* an ase.Atoms object holding structure s
AtomsObject(s) == [kind |-> "Atoms", rows |-> PositionsOf(s), numbers |-> NumbersOf(s)]
\* a numpy array of shape (N, 2) / (N,)
NdArray(rows) == [kind |-> "ndarray", rows |-> rows, numbers |-> <<>>]
\* a plain Python list
PyList(rows) == [kind |-> "list", rows |-> rows, numbers |-> <<>>]

Scalar(s) == <<"scalar", s>>
Pair(sx, sy) == <<"tuple", sx, sy>>

----------------------------------------------------------------------------
(* Python and numpy semantics the source relies on *)

\* bool(atoms) in `if atoms:`: None is false; an ase.Atoms object is true
\* exactly when it holds at least one atom (its __len__).
AtomsTruthy(atoms) == atoms.kind = "Atoms" /\ Len(atoms.numbers) > 0

\* `not positions` with the check for a missing argument left out
NotPositionsUnchecked(positions) == {"False"}

\* The outcomes of evaluating `not positions`: None and an empty list give
\* True, a non-empty list gives False, an array with two or more elements
\* raises ValueError (its truth value is ambiguous); for an array without
\* elements the numpy build decides between False-with-a-warning and ValueError.
NotPositions(positions) ==
    CASE positions.kind = "None" -> {"True"}
      [] positions.kind = "list" ->
            IF Len(positions.rows) = 0 THEN {"True"} ELSE {"False"}
      [] positions.kind = "ndarray" ->
            IF Len(positions.rows) = 0 THEN {"True", "ValueError"} ELSE {"ValueError"}

\* bool(jitter_strength) in `if self.jitter_strength:`: a number is true when
\* it is not zero, a tuple is true when it is not empty.
StrengthTruthy(strength) ==
    IF strength[1] = "tuple" THEN Len(strength) > 1 ELSE strength[2] # 0

\* bool(x) of a number, in `if self.scan_rotation:` and `if self.drift_speed:`
NumberTruthy(x) == x # 0

MaxOf(S) == CHOOSE m \in S : \A x \in S : x <= m
MinOf(S) == CHOOSE m \in S : \A x \in S : m <= x

RECURSIVE SumSeq(_)
SumSeq(s) == IF s = <<>> THEN 0 ELSE s[1] + SumSeq(Tail(s))

\* the entries of one channel (an H x W array), as a set
Entries(ch) ==
    UNION {{ch[i][j] : j \in 1..Len(ch[i])} : i \in 1..Len(ch)}

\* ndarray.shape of a (2, H, W) array
ShapeOf(arr) ==
    LET H == Len(arr[1])
    IN  <<2, H, IF H = 0 THEN 0 ELSE Len(arr[1][1])>>

\* np.prod of a shape
Prod(shape) == IF Len(shape) = 2 THEN shape[1] * shape[2]
               ELSE shape[1] * shape[2] * shape[3]

\* common denominator of the entries of a grid of the given (H, W)
Den(HW) == 2 * HW[1] * HW[2]

\* len(arange(low, high, step)) for a positive step, all three over the
\* same denominator
ArangeLen(low, high, step) ==
    IF high <= low THEN 0 ELSE (high - low + step - 1) \div step

\* lexicographic order of the rows (x, y, Z) np.unique sorts by
RowLess(a, b) ==
    \/ a[1] < b[1]
    \/ a[1] = b[1] /\ a[2] < b[2]
    \/ a[1] = b[1] /\ a[2] = b[2] /\ a[3] < b[3]

RECURSIVE SortedRows(_)
SortedRows(S) ==
    IF S = {} THEN <<>>
    ELSE LET m == CHOOSE x \in S : \A y \in S : x = y \/ RowLess(x, y)
         IN  <<m>> \o SortedRows(S \ {m})

\* np.unique(np.column_stack([positions, numbers]), axis=0)
Unique(positions, numbers) ==
    SortedRows({<<positions[i][1], positions[i][2], numbers[i]>> : i \in 1..Len(numbers)})


----------------------------------------------------------------------------
(* The artifact generators and the probe grid *)

\* cp.zeros(shape) for a shape (H, W)
Zeros(HW) == [i \in 1..HW[1] |-> [j \in 1..HW[2] |-> 0]]

\* cp.arange(n)
Arange(n) == [k \in 1..n |-> k - 1]

\* flat.reshape((H, W)): row-major
Reshape(flat, HW) ==
    [i \in 1..HW[1] |-> [j \in 1..HW[2] |-> flat[(i - 1) * HW[2] + j]]]

\* cos and sin of a multiple of 90 degrees
Cos90(deg) == CASE deg % 360 = 0 -> 1 [] deg % 360 = 180 -> -1 [] OTHER -> 0
Sin90(deg) == CASE deg % 360 = 90 -> 1 [] deg % 360 = 270 -> -1 [] OTHER -> 0

\* rotation_matrix(deg), clockwise_positive left at False
rotation_matrix(deg) ==
    <<<<Cos90(deg), -Sin90(deg)>>, <<Sin90(deg), Cos90(deg)>>>>

\* add_drift with the pixel index taken column by column
add_drift_colmajor(XYshape, drift_vector, drift_speed) ==
    [c \in 1..2 |-> [i \in 1..XYshape[1] |-> [j \in 1..XYshape[2] |->
        2 * drift_speed * (-drift_vector[c]) * ((j - 1) * XYshape[1] + (i - 1))]]]

\* add_drift(XYshape, drift_vector, drift_speed) for XYshape = (H, W).
\* drift_speed / np.prod(XYshape) is kept as the numerator drift_speed over
\* H*W; the entries returned are numerators over Den(XYshape) = 2*H*W.
add_drift(XYshape, drift_vector, drift_speed) ==
    LET H == XYshape[1]
        W == XYshape[2]
        vec == [c \in 1..2 |-> -drift_vector[c]]
        probe_indices == Reshape(Arange(Prod(XYshape)), XYshape)
        indicesT == [j \in 1..W |-> [i \in 1..H |-> probe_indices[i][j]]]
        scaled == [j \in 1..W |-> [i \in 1..H |->
                      [c \in 1..2 |-> drift_speed * vec[c] * indicesT[j][i]]]]
    IN  [c \in 1..2 |-> [i \in 1..H |-> [j \in 1..W |-> 2 * scaled[j][i][c]]]]

\* The values cp.random.random() may return, in halves: 0 and 1/2.
RandomHalves == {0, 1}

\* add_line_jitter(XYshape, strength, horizontal, vertical) for XYshape =
\* (2, H, W), given the vectors rx and ry that cp.random.random((XYshape[1]))
\* returned (in halves; <<>> when the branch is not taken).  Entries are
\* numerators over Den((H, W)).
add_line_jitter(XYshape, strength, horizontal, vertical, rx, ry) ==
    LET HW == <<XYshape[2], XYshape[3]>>
        strengthx == strength[2]
        strengthy == IF strength[1] = "tuple" THEN strength[3] ELSE strength[2]
        jx == IF horizontal
              THEN [i \in 1..HW[1] |-> [j \in 1..HW[2] |->
                       Den(HW) * strengthx * (rx[i] - 1)]]
              ELSE Zeros(HW)
        jy == IF vertical
              THEN [i \in 1..HW[1] |-> [j \in 1..HW[2] |->
                       Den(HW) * strengthy * (ry[i] - 1)]]
              ELSE Zeros(HW)
    IN  <<jx, jy>>

\* number of random numbers add_line_jitter draws
JitterDrawCount(XYshape, horizontal, vertical) ==
    (IF horizontal THEN XYshape[2] ELSE 0) + (IF vertical THEN XYshape[2] ELSE 0)

\* create_probe_positions, lines 400-409: the plain meshgrid, entries as
\* numerators over Den((H, W)).
PlainGrid(atom_positions, margin, square, pixel_size) ==
    LET xs == {atom_positions[i][1] : i \in 1..Len(atom_positions)}
        ys == {atom_positions[i][2] : i \in 1..Len(atom_positions)}
        xlow0 == MinOf(xs) - margin
        ylow0 == MinOf(ys) - margin
        xhigh0 == MaxOf(xs) + margin
        yhigh0 == MaxOf(ys) + margin
        scale100 == xhigh0 - xlow0
        xlow == IF square THEN MinOf({xlow0, ylow0}) ELSE xlow0
        ylow == IF square THEN MinOf({xlow0, ylow0}) ELSE ylow0
        xhigh == IF square THEN MaxOf({xhigh0, yhigh0}) ELSE xhigh0
        yhigh == IF square THEN MaxOf({xhigh0, yhigh0}) ELSE yhigh0
        W == ArangeLen(100 * xlow, 100 * xhigh + scale100, 100 * pixel_size)
        H == ArangeLen(100 * ylow, 100 * yhigh + scale100, 100 * pixel_size)
        D == Den(<<H, W>>)
    IN  << [i \in 1..H |-> [j \in 1..W |-> D * (xlow + (j - 1) * pixel_size)]],
           [i \in 1..H |-> [j \in 1..W |-> D * (ylow + (i - 1) * pixel_size)]] >>

\* a + b for two arrays of the same shape (2, H, W)
AddField(a, b) ==
    [c \in 1..2 |-> [i \in 1..Len(a[c]) |-> [j \in 1..Len(a[c][i]) |->
        a[c][i][j] + b[c][i][j]]]]

\* arr.reshape(-1) of an (H, W) array: row-major
Flatten(ch, HW) ==
    [k \in 1..(HW[1] * HW[2]) |-> ch[((k - 1) \div HW[2]) + 1][((k - 1) % HW[2]) + 1]]

\* lines 420-424: rotate every probe position about the mean position
Rotate(probe_positions, deg) ==
    LET shape == ShapeOf(probe_positions)
        HW == <<shape[2], shape[3]>>
        n == shape[2] * shape[3]
        R == rotation_matrix(deg)
        flatx == Flatten(probe_positions[1], HW)
        flaty == Flatten(probe_positions[2], HW)
        meanx == SumSeq(flatx) \div n
        meany == SumSeq(flaty) \div n
        rotx == [k \in 1..n |-> R[1][1] * (flatx[k] - meanx)
                              + R[1][2] * (flaty[k] - meany) + meanx]
        roty == [k \in 1..n |-> R[2][1] * (flatx[k] - meanx)
                              + R[2][2] * (flaty[k] - meany) + meany]
    IN  IF n = 0 THEN probe_positions
        ELSE <<Reshape(rotx, HW), Reshape(roty, HW)>>

\* the offset with the minimum compared unnegated
OffsetNoNegation(ch) ==
    LET mx == MaxOf(Entries(ch))
        mn == MinOf(Entries(ch))
    IN  IF mx > mn THEN mx ELSE mn

\* lines 433-434: the drift extreme of larger magnitude
Offset(ch) ==
    LET mx == MaxOf(Entries(ch))
        mn == MinOf(Entries(ch))
    IN  IF mx > -mn THEN mx ELSE mn

\* line 435: probe_positions -= [offsetx, offsety][:, None, None] / 2
Recentred(probe_positions, drift_field) ==
    LET offsetx == Offset(drift_field[1])
        offsety == Offset(drift_field[2])
        half == <<offsetx \div 2, offsety \div 2>>
    IN  [c \in 1..2 |-> [i \in 1..Len(probe_positions[c]) |->
            [j \in 1..Len(probe_positions[c][i]) |->
                probe_positions[c][i][j] - half[c]]]]

----------------------------------------------------------------------------
(* Gaussian parameters and image synthesis *)

RECURSIVE Pow(_, _)
Pow(z, p) == IF p = 0 THEN 1 ELSE z * Pow(z, p - 1)

\* create_parameters: the (4, N) array [A, xc, yc, sigma]
Parameters(atom_positions, atom_numbers, number_of_atoms, power, sigma) ==
    << [a \in 1..Len(atom_numbers) |-> Pow(atom_numbers[a], power)],
       [a \in 1..Len(atom_positions) |-> atom_positions[a][1]],
       [a \in 1..Len(atom_positions) |-> atom_positions[a][2]],
       [a \in 1..number_of_atoms |-> 1 * sigma] >>

\* cp.exp in fixed point: ExpNeg(num, den) stands for ExpOne * exp(-num/den),
\* evaluated as ExpOne / 2^floor(num/den)
ExpOne == 64
ExpNeg(num, den) ==
    LET q == num \div den
    IN  IF q > 6 THEN 0 ELSE ExpOne \div (2 ^ q)

\* Gaussian2D(x, y, A, xc, yc, sigma) at one point; x and y are numerators
\* over D, the centre and sigma are plain numbers
Gaussian2D(x, y, A, xc, yc, sigma, D) ==
    A * ExpNeg((x - D * xc) * (x - D * xc) + (y - D * yc) * (y - D * yc),
               2 * sigma * sigma * D * D)

\* one pass of the loop of generate: img += Gaussian2D(X, Y, *parameters)
AddAtom(img, X, Y, parameters, a, D) ==
    [i \in 1..Len(img) |-> [j \in 1..Len(img[i]) |->
        img[i][j] + Gaussian2D(X[i][j], Y[i][j], parameters[1][a],
                               parameters[2][a], parameters[3][a],
                               parameters[4][a], D)]]

RECURSIVE GenerateLoop(_, _, _, _, _, _)
GenerateLoop(img, X, Y, parameters, a, D) ==
    IF a > Len(parameters[1]) THEN img
    ELSE GenerateLoop(AddAtom(img, X, Y, parameters, a, D), X, Y, parameters, a + 1, D)

\* generate() accumulating into the image of the previous call
GenerateStartCached(obj) ==
    LET shape == ShapeOf(obj.probe_positions)
    IN  IF ret = <<>> THEN Zeros(<<shape[2], shape[3]>>) ELSE ret[Len(ret)].img

\* the image generate() starts from: cp.zeros(X.shape)
GenerateStart(obj) ==
    LET shape == ShapeOf(obj.probe_positions)
    IN  Zeros(<<shape[2], shape[3]>>)

\* ImageModel.generate
generate(obj) ==
    LET shape == ShapeOf(obj.probe_positions)
    IN  GenerateLoop(GenerateStart(obj), obj.probe_positions[1], obj.probe_positions[2],
                     obj.parameters, 1, Den(<<shape[2], shape[3]>>))

\* generate_cupy_ram with the centre coordinates passed in the wrong order
generate_cupy_ram_swapped(obj) ==
    LET shape == ShapeOf(obj.probe_positions)
        X == obj.probe_positions[1]
        Y == obj.probe_positions[2]
        D == Den(<<shape[2], shape[3]>>)
        all == [i \in 1..shape[2] |-> [j \in 1..shape[3] |->
                  [a \in 1..Len(obj.parameters[1]) |->
                      Gaussian2D(X[i][j], Y[i][j], obj.parameters[1][a],
                                 obj.parameters[3][a], obj.parameters[2][a],
                                 obj.parameters[4][a], D)]]]
    IN  [i \in 1..shape[2] |-> [j \in 1..shape[3] |-> SumSeq(all[i][j])]]

\* ImageModel.generate_cupy_ram: the (H, W, N) array of all contributions,
\* summed over its last axis
generate_cupy_ram(obj) ==
    LET shape == ShapeOf(obj.probe_positions)
        X == obj.probe_positions[1]
        Y == obj.probe_positions[2]
        D == Den(<<shape[2], shape[3]>>)
        all == [i \in 1..shape[2] |-> [j \in 1..shape[3] |->
                  [a \in 1..Len(obj.parameters[1]) |->
                      Gaussian2D(X[i][j], Y[i][j], obj.parameters[1][a],
                                 obj.parameters[2][a], obj.parameters[3][a],
                                 obj.parameters[4][a], D)]]]
    IN  [i \in 1..shape[2] |-> [j \in 1..shape[3] |-> SumSeq(all[i][j])]]


----------------------------------------------------------------------------
(* Arguments of ImageModel(...) *)

Components == {-1, 0, 1}
Vacuums == {0, 1}

\* the ways a structure s reaches the constructor: as an ase.Atoms object,
\* as a (positions, numbers) pair of arrays, or as a pair of lists
SourcesOf(s) ==
    { [atoms |-> AtomsObject(s), positions |-> None, numbers |-> None],
      [atoms |-> None, positions |-> NdArray(PositionsOf(s)),
       numbers |-> [None EXCEPT !.kind = "ndarray", !.numbers = NumbersOf(s)]],
      [atoms |-> None, positions |-> PyList(PositionsOf(s)),
       numbers |-> [None EXCEPT !.kind = "list", !.numbers = NumbersOf(s)]] }

NoSource == [atoms |-> None, positions |-> None, numbers |-> None]

\* the defaults of __init__ (line 346-350), lengths in units of the pixel size
Defaults ==
    [scan_rotation |-> 0, drift_speed |-> 0, drift_vector |-> <<1, 0>>,
     pixel_size |-> 1, jitter_strength |-> Scalar(0),
     jitter_horizontal |-> TRUE, jitter_vertical |-> FALSE,
     sigma |-> 1, power |-> 2, centre_drift |-> TRUE, square |-> FALSE,
     vacuum |-> 1, fast |-> FALSE]

WithSource(src, kw) ==
    [atoms |-> src.atoms, positions |-> src.positions, numbers |-> src.numbers,
     scan_rotation |-> kw.scan_rotation, drift_speed |-> kw.drift_speed,
     drift_vector |-> kw.drift_vector, pixel_size |-> kw.pixel_size,
     jitter_strength |-> kw.jitter_strength,
     jitter_horizontal |-> kw.jitter_horizontal,
     jitter_vertical |-> kw.jitter_vertical, sigma |-> kw.sigma,
     power |-> kw.power, centre_drift |-> kw.centre_drift,
     square |-> kw.square, vacuum |-> kw.vacuum, fast |-> kw.fast]

\* (jitter_strength, jitter_horizontal, jitter_vertical)
JitterSettings ==
    {<<Scalar(0), <<TRUE, FALSE>>>>}
    \cup ({Scalar(1)} \X {<<TRUE, FALSE>>, <<FALSE, TRUE>>})
    \cup ({Pair(0, 0)} \X {<<TRUE, FALSE>>, <<FALSE, FALSE>>})

\* (drift_speed, drift_vector, centre_drift)
DriftSettings ==
    {<<0, <<1, 0>>, c>> : c \in BOOLEAN}
    \cup {<<1, v, c>> : v \in Components \X Components, c \in BOOLEAN}

\* geometry varies, artifacts stay at their defaults
GeometryArgs ==
    { WithSource(src, [Defaults EXCEPT !.vacuum = v, !.square = sq, !.fast = f]) :
        src \in {NoSource} \cup UNION {SourcesOf(s) : s \in Structures},
        v \in Vacuums, sq \in BOOLEAN, f \in BOOLEAN }

\* the structures the artifact settings are combined with: distinct sites
\* of one element listed in increasing order, the first at the origin
ArtifactStructures ==
    {s \in Structures :
        /\ Len(s) >= 1
        /\ s[1] = <<0, 0, 1>>
        /\ \A i \in 2..Len(s) : s[i][3] = 1 /\ RowLess(s[i - 1], s[i])}

\* artifacts vary over every combination
ArtifactArgs ==
    { WithSource([NoSource EXCEPT !.atoms = AtomsObject(s)],
                 [Defaults EXCEPT !.vacuum = v,
                                  !.jitter_strength = js[1],
                                  !.jitter_horizontal = js[2][1],
                                  !.jitter_vertical = js[2][2],
                                  !.scan_rotation = rot,
                                  !.drift_speed = ds[1],
                                  !.drift_vector = ds[2],
                                  !.centre_drift = ds[3]]) :
        s \in ArtifactStructures, v \in Vacuums, js \in JitterSettings,
        rot \in {0, 90}, ds \in DriftSettings }

CtorArgs == GeometryArgs \cup ArtifactArgs

----------------------------------------------------------------------------
(* ImageModel.__init__ *)

NoAttrs == <<>>

\* the statements with the scan rotation moved in front of the line jitter
StageAfterRotationFirst(stage) ==
    CASE stage = "init" -> "meshgrid"
      [] stage = "meshgrid" -> "rotation"
      [] stage = "rotation" -> "jitter"
      [] stage = "jitter" -> "drift"
      [] stage = "drift" -> "recentre"
      [] stage = "recentre" -> "parameters"
      [] stage = "parameters" -> "ready"

\* the order of the statements of __init__ and create_probe_positions
StageAfter(stage) ==
    CASE stage = "init" -> "meshgrid"
      [] stage = "meshgrid" -> "jitter"
      [] stage = "jitter" -> "rotation"
      [] stage = "rotation" -> "drift"
      [] stage = "drift" -> "recentre"
      [] stage = "recentre" -> "parameters"
      [] stage = "parameters" -> "ready"

\* an exception leaves __init__: no further statement of it runs
Raise(e) ==
    /\ pc' = "raised"
    /\ err' = e

\* lines 363-382: the attributes assigned once the atom data is chosen
Fields(a, positions, numbers) ==
    LET unique == Unique(positions, numbers)
        atom_positions == IF a.fast THEN PositionsOf(unique) ELSE positions
        atom_numbers == IF a.fast THEN NumbersOf(unique) ELSE numbers
    IN  [atom_positions |-> atom_positions, atom_numbers |-> atom_numbers,
         number_of_atoms |-> Len(atom_numbers), pixel_size |-> a.pixel_size,
         sigma |-> a.sigma, power |-> a.power,
         jitter_strength |-> a.jitter_strength,
         jitter_horizontal |-> a.jitter_horizontal,
         jitter_vertical |-> a.jitter_vertical,
         drift_speed |-> a.drift_speed, drift_vector |-> a.drift_vector,
         centre_drift |-> a.centre_drift, scan_rotation |-> a.scan_rotation,
         square |-> a.square, margin |-> a.vacuum]

\* positions[:, :2] (line 360): a list cannot be indexed by a tuple
SliceColumns(positions) ==
    IF positions.kind = "list" THEN "TypeError" ELSE "ok"

\* lines 352-382 for the arguments a
InitFields(a) ==
    /\ args' = a
    /\ stepLog' = <<>>
    /\ jitter' = <<>>
    /\ drift' = <<>>
    /\ ret' = <<>>
    /\ UNCHANGED <<jitterCalls, rngDraws>>
    /\ IF AtomsTruthy(a.atoms)
       THEN /\ self' = Fields(a, a.atoms.rows, a.atoms.numbers)
            /\ pc' = StageAfter("init")
            /\ err' = "none"
       ELSE \E outcome \in NotPositions(a.positions) :
              CASE outcome = "True" ->
                     self' = NoAttrs /\ Raise("AttributeError")
                [] outcome = "ValueError" ->
                     self' = NoAttrs /\ Raise("ValueError")
                [] outcome = "False" /\ SliceColumns(a.positions) # "ok" ->
                     self' = NoAttrs /\ Raise(SliceColumns(a.positions))
                [] OTHER ->
                     /\ self' = Fields(a, a.positions.rows, a.numbers.numbers)
                     /\ pc' = StageAfter("init")
                     /\ err' = "none"

\* ImageModel(...) called directly
Construct ==
    /\ spc = "idle"
    /\ pc = "idle"
    /\ \E a \in CtorArgs : InitFields(a)
    /\ UNCHANGED seriesVars


\* self.<name> = value
SetAttr(obj, name, value) == (name :> value) @@ obj

\* lines 400-410: the plain grid
Meshgrid ==
    /\ pc = "meshgrid"
    /\ self' = SetAttr(self, "probe_positions",
                       PlainGrid(self.atom_positions, self.margin, self.square,
                                 self.pixel_size))
    /\ pc' = StageAfter("meshgrid")
    /\ UNCHANGED <<err, stepLog, jitter, drift, jitterCalls, rngDraws, ret>>
    /\ UNCHANGED seriesVars
    /\ UNCHANGED args

\* lines 412-417: if self.jitter_strength: probe_positions += add_line_jitter(...)
Jitter ==
    /\ pc = "jitter"
    /\ pc' = StageAfter("jitter")
    /\ IF StrengthTruthy(self.jitter_strength)
       THEN LET XYshape == ShapeOf(self.probe_positions)
                lines == 1..XYshape[2]
            IN  \E rx \in IF self.jitter_horizontal
                          THEN [lines -> RandomHalves] ELSE {<<>>} :
                \E ry \in IF self.jitter_vertical
                          THEN [lines -> RandomHalves] ELSE {<<>>} :
                  LET field == add_line_jitter(XYshape, self.jitter_strength,
                                               self.jitter_horizontal,
                                               self.jitter_vertical, rx, ry)
                  IN  /\ jitter' = field
                      /\ self' = [self EXCEPT !.probe_positions = AddField(@, field)]
                      /\ jitterCalls' = jitterCalls + 1
                      /\ rngDraws' = rngDraws + JitterDrawCount(XYshape,
                                         self.jitter_horizontal, self.jitter_vertical)
                      /\ stepLog' = Append(stepLog, "jitter")
       ELSE UNCHANGED <<self, jitter, jitterCalls, rngDraws, stepLog>>
    /\ UNCHANGED <<err, drift, ret>>
    /\ UNCHANGED seriesVars
    /\ UNCHANGED args

\* lines 419-424: if self.scan_rotation: rotate about the mean position
Rotation ==
    /\ pc = "rotation"
    /\ pc' = StageAfter("rotation")
    /\ IF NumberTruthy(self.scan_rotation)
       THEN /\ self' = [self EXCEPT !.probe_positions = Rotate(@, self.scan_rotation)]
            /\ stepLog' = Append(stepLog, "rotation")
       ELSE UNCHANGED <<self, stepLog>>
    /\ UNCHANGED <<err, jitter, drift, jitterCalls, rngDraws, ret>>
    /\ UNCHANGED seriesVars
    /\ UNCHANGED args

\* lines 426-429: if self.drift_speed: probe_positions += add_drift(...)
Drift ==
    /\ pc = "drift"
    /\ pc' = StageAfter("drift")
    /\ IF NumberTruthy(self.drift_speed)
       THEN LET XYshape == ShapeOf(self.probe_positions)
                field == add_drift(<<XYshape[2], XYshape[3]>>, self.drift_vector,
                                   self.drift_speed)
            IN  /\ drift' = field
                /\ self' = [self EXCEPT !.probe_positions = AddField(@, field)]
                /\ stepLog' = Append(stepLog, "drift")
       ELSE UNCHANGED <<self, drift, stepLog>>
    /\ UNCHANGED <<err, jitter, jitterCalls, rngDraws, ret>>
    /\ UNCHANGED seriesVars
    /\ UNCHANGED args

\* lines 431-435, inside `if self.drift_speed:`.  max() and min() of an array
\* without elements raise ValueError.
Recentre ==
    /\ pc = "recentre"
    /\ IF NumberTruthy(self.drift_speed) /\ self.centre_drift
       THEN IF Prod(ShapeOf(self.probe_positions)) = 0
            THEN /\ Raise("ValueError")
                 /\ UNCHANGED <<self, stepLog>>
            ELSE /\ self' = [self EXCEPT !.probe_positions = Recentred(@, drift)]
                 /\ stepLog' = Append(stepLog, "recentre")
                 /\ pc' = StageAfter("recentre")
                 /\ UNCHANGED err
       ELSE /\ pc' = StageAfter("recentre")
            /\ UNCHANGED <<self, stepLog, err>>
    /\ UNCHANGED <<jitter, drift, jitterCalls, rngDraws, ret>>
    /\ UNCHANGED seriesVars
    /\ UNCHANGED args

\* lines 437-442: create_parameters, the last statement of __init__
CreateParameters ==
    /\ pc = "parameters"
    /\ self' = SetAttr(self, "parameters",
                       Parameters(self.atom_positions, self.atom_numbers,
                                  self.number_of_atoms, self.power, self.sigma))
    /\ pc' = StageAfter("parameters")
    /\ UNCHANGED <<err, stepLog, jitter, drift, jitterCalls, rngDraws, ret>>
    /\ UNCHANGED seriesVars
    /\ UNCHANGED args

\* m.generate() on an instance built directly
Generate ==
    /\ spc = "idle"
    /\ pc = "ready"
    /\ Len(ret) < MaxCalls
    /\ ret' = Append(ret, [method |-> "generate", img |-> generate(self)])
    /\ UNCHANGED <<pc, self, err, stepLog, jitter, drift, jitterCalls, rngDraws>>
    /\ UNCHANGED seriesVars
    /\ UNCHANGED args

\* m.generate_cupy_ram() on an instance built directly
GenerateCupyRam ==
    /\ spc = "idle"
    /\ pc = "ready"
    /\ Len(ret) < MaxCalls
    /\ ret' = Append(ret, [method |-> "generate_cupy_ram",
                           img |-> generate_cupy_ram(self)])
    /\ UNCHANGED <<pc, self, err, stepLog, jitter, drift, jitterCalls, rngDraws>>
    /\ UNCHANGED seriesVars
    /\ UNCHANGED args

----------------------------------------------------------------------------
(* get_rotation_series *)

\* angles in degrees that are multiples of 90; as radians in random_angle
\* and drift_angle (np.cos and np.sin are applied to them directly), as
\* degrees in the scan angles
QuarterTurns == {0, 90, 180, 270}

SeriesSizes == {1, 2, 4}

\* the arguments of get_rotation_series; drift_angle is <<>> for None
SeriesArgs ==
    [atoms : {None} \cup {AtomsObject(s) : s \in ArtifactStructures},
     vacuum : {0}, pixel_size : {1}, nImages : SeriesSizes,
     minScanAngle : {0}, maxScanAngle : {360},
     drift_speed : {0, 1}, drift_angle : {<<>>} \cup {<<q>> : q \in QuarterTurns},
     jitter_strength : {Scalar(0), Scalar(1)}]

\* np.linspace(minScanAngle, maxScanAngle, nImages, endpoint=False)
Linspace(lo, hi, n) == [i \in 1..n |-> lo + ((i - 1) * (hi - lo)) \div n]

\* line 70: drift_vector = [np.cos(random_angle), np.sin(random_angle)]
DriftVector(angle) == <<Cos90(angle), Sin90(angle)>>

\* the keyword arguments with the drift direction turned with the scan
MemberArgsRotatedDrift(sa, angle, scanangle) ==
    WithSource([NoSource EXCEPT !.atoms = sa.atoms],
               [Defaults EXCEPT !.scan_rotation = scanangle,
                                !.pixel_size = sa.pixel_size,
                                !.vacuum = sa.vacuum,
                                !.drift_speed = sa.drift_speed,
                                !.drift_vector = DriftVector(angle + scanangle),
                                !.jitter_strength = sa.jitter_strength,
                                !.centre_drift = TRUE,
                                !.fast = FALSE])

\* lines 77-84: the keyword arguments of the ImageModel of one scan angle
MemberArgs(sa, angle, scanangle) ==
    WithSource([NoSource EXCEPT !.atoms = sa.atoms],
               [Defaults EXCEPT !.scan_rotation = scanangle,
                                !.pixel_size = sa.pixel_size,
                                !.vacuum = sa.vacuum,
                                !.drift_speed = sa.drift_speed,
                                !.drift_vector = DriftVector(angle),
                                !.jitter_strength = sa.jitter_strength,
                                !.centre_drift = TRUE,
                                !.fast = FALSE])

\* lines 86-87: img[:side, :side] with side = np.minimum(*img.shape)
Crop(img) ==
    LET H == Len(img)
        W == IF H = 0 THEN 0 ELSE Len(img[1])
        side == IF H < W THEN H ELSE W
    IN  [i \in 1..side |-> [j \in 1..side |-> img[i][j]]]

\* lines 63-75: the statements before the loop.  get_example_atoms is not
\* defined anywhere, so the call with atoms=None raises NameError.
SeriesStart ==
    /\ spc = "idle"
    /\ pc = "idle"
    /\ \E sa \in SeriesArgs :
        /\ sargs' = sa
        /\ IF sa.atoms.kind = "None"
           THEN /\ spc' = "raised"
                /\ UNCHANGED <<random_angle, angleDraws>>
           ELSE /\ spc' = "loop"
                /\ IF sa.drift_angle = <<>>
                   THEN \E r \in QuarterTurns :
                          /\ random_angle' = r
                          /\ angleDraws' = angleDraws + 1
                   ELSE /\ random_angle' = sa.drift_angle[1]
                        /\ UNCHANGED angleDraws
    /\ members' = <<>>
    /\ images' = <<>>
    /\ UNCHANGED sret
    /\ UNCHANGED ctorVars

\* lines 76-84: the next scan angle, and the ImageModel built for it
SeriesConstruct ==
    /\ spc = "loop"
    /\ pc \in {"idle", "appended"}
    /\ Len(images) < sargs.nImages
    /\ LET scanangles == Linspace(sargs.minScanAngle, sargs.maxScanAngle, sargs.nImages)
           a == MemberArgs(sargs, random_angle, scanangles[Len(images) + 1])
       IN  /\ InitFields(a)
           /\ members' = Append(members, a)
    /\ UNCHANGED <<spc, sargs, random_angle, angleDraws, images, sret>>

\* lines 85-87: img = m.generate(); images.append(img[:side, :side])
SeriesGenerate ==
    /\ spc = "loop"
    /\ pc = "ready"
    /\ images' = Append(images, Crop(generate(self)))
    /\ pc' = "appended"
    /\ UNCHANGED <<self, err, stepLog, jitter, drift, jitterCalls, rngDraws, ret>>
    /\ UNCHANGED <<spc, sargs, random_angle, angleDraws, members, sret>>
    /\ UNCHANGED args

\* an exception of the constructor leaves get_rotation_series as well
SeriesRaise ==
    /\ spc = "loop"
    /\ pc = "raised"
    /\ spc' = "raised"
    /\ UNCHANGED <<sargs, random_angle, angleDraws, members, images, sret>>
    /\ UNCHANGED ctorVars

\* lines 88-91: return images, scanangles, random_angle
SeriesReturn ==
    /\ spc = "loop"
    /\ pc = "appended"
    /\ Len(images) = sargs.nImages
    /\ sret' = [images |-> images,
                scanangles |-> Linspace(sargs.minScanAngle, sargs.maxScanAngle,
                                        sargs.nImages),
                random_angle |-> random_angle]
    /\ spc' = "done"
    /\ UNCHANGED <<sargs, random_angle, angleDraws, members, images>>
    /\ UNCHANGED ctorVars


----------------------------------------------------------------------------

Init ==
    /\ pc = "idle"
    /\ args = <<>>
    /\ self = NoAttrs
    /\ err = "none"
    /\ stepLog = <<>>
    /\ jitter = <<>>
    /\ drift = <<>>
    /\ jitterCalls = 0
    /\ rngDraws = 0
    /\ ret = <<>>
    /\ spc = "idle"
    /\ sargs = <<>>
    /\ random_angle = 0
    /\ angleDraws = 0
    /\ members = <<>>
    /\ images = <<>>
    /\ sret = <<>>

Next ==
    \/ Construct
    \/ Meshgrid
    \/ Jitter
    \/ Rotation
    \/ Drift
    \/ Recentre
    \/ CreateParameters
    \/ Generate
    \/ GenerateCupyRam
    \/ SeriesStart
    \/ SeriesConstruct
    \/ SeriesGenerate
    \/ SeriesRaise
    \/ SeriesReturn

Spec == Init /\ [][Next]_vars


----------------------------------------------------------------------------
(* Properties *)

\* the constructor has returned an instance
Built == pc \in {"ready", "appended"}

\* create_probe_positions has just returned
GridDone == pc = "parameters"

\* position of an artifact step in the order jitter, rotation, drift, recentring
StepRank(step) ==
    CASE step = "jitter" -> 1
      [] step = "rotation" -> 2
      [] step = "drift" -> 3
      [] step = "recentre" -> 4

\* the artifact steps the settings of obj enable, in that order
EnabledSteps(obj) ==
    (IF StrengthTruthy(obj.jitter_strength) THEN <<"jitter">> ELSE <<>>)
    \o (IF NumberTruthy(obj.scan_rotation) THEN <<"rotation">> ELSE <<>>)
    \o (IF NumberTruthy(obj.drift_speed) THEN <<"drift">> ELSE <<>>)
    \o (IF NumberTruthy(obj.drift_speed) /\ obj.centre_drift
        THEN <<"recentre">> ELSE <<>>)

\* the grid before the drift is added: jitter field jit added to the plain
\* grid, the sum then rotated
GridBeforeDrift(obj, jit) ==
    LET g0 == PlainGrid(obj.atom_positions, obj.margin, obj.square, obj.pixel_size)
        g1 == IF StrengthTruthy(obj.jitter_strength) THEN AddField(g0, jit) ELSE g0
    IN  IF NumberTruthy(obj.scan_rotation) THEN Rotate(g1, obj.scan_rotation) ELSE g1

\* the grid composed as jitter, rotation, drift, recentring from the fields
\* jit and dr
ComposedGrid(obj, jit, dr) ==
    LET g2 == GridBeforeDrift(obj, jit)
        g3 == IF NumberTruthy(obj.drift_speed) THEN AddField(g2, dr) ELSE g2
    IN  IF NumberTruthy(obj.drift_speed) /\ obj.centre_drift
        THEN Recentred(g3, dr) ELSE g3

\* some entry of the field is not zero
NonZero(field) == \E c \in 1..Len(field) : Entries(field[c]) \ {0} # {}

\* C1: the artifact steps of create_probe_positions run in the order jitter,
\* rotation, drift, recentring; the steps that ran are exactly the enabled
\* ones, and the finished grid is the plain grid with the jitter added, then
\* rotated, then the drift added, then recentred.
C1_FixedOrder ==
    /\ \A i \in 1..(Len(stepLog) - 1) : StepRank(stepLog[i]) < StepRank(stepLog[i + 1])
    /\ GridDone =>
        /\ stepLog = EnabledSteps(self)
        /\ self.probe_positions = ComposedGrid(self, jitter, drift)

C1_Witness ==
    /\ GridDone
    /\ stepLog = <<"jitter", "rotation", "drift", "recentre">>
    /\ NonZero(jitter)
    /\ NonZero(drift)

\* a constructor call with neither atoms nor positions has been made
NoSourceGiven ==
    /\ pc # "idle"
    /\ args.atoms.kind = "None"
    /\ args.positions.kind = "None"

\* C2: a construction with neither an atoms object nor positions raises the
\* invalid-input error (AttributeError) and the instance has no attribute at
\* all then, in particular no probe grid and no parameters.
C2_NoSourceRaises ==
    NoSourceGiven =>
        /\ pc = "raised"
        /\ err = "AttributeError"
        /\ DOMAIN self = {}

C2_Witness ==
    /\ NoSourceGiven
    /\ pc = "raised"
    /\ err = "AttributeError"
    /\ stepLog = <<>>

\* a constructor call with atoms omitted and a (positions, numbers) pair of
\* arrays with at least one row has been made
ExplicitPairGiven ==
    /\ pc # "idle"
    /\ args.atoms.kind = "None"
    /\ args.positions.kind = "ndarray"
    /\ Len(args.positions.rows) >= 1

\* C3: a construction from an explicit non-empty (positions, numbers) pair
\* raises nothing and takes atom_positions and atom_numbers from the pair.
C3_ExplicitPairSucceeds ==
    ExplicitPairGiven =>
        /\ pc # "raised"
        /\ err = "none"
        /\ ~args.fast => /\ self.atom_positions = args.positions.rows
                         /\ self.atom_numbers = args.numbers.numbers

\* number of pixels of an image or of one channel
PixelCount(img) == IF Len(img) = 0 THEN 0 ELSE Len(img) * Len(img[1])

\* C4: no construction completes with a probe grid of zero pixels, and no
\* call of generate or generate_cupy_ram returns an image of zero pixels.
C4_DegenerateRejected ==
    /\ Built => PixelCount(self.probe_positions[1]) > 0
    /\ \A i \in 1..Len(ret) : PixelCount(ret[i].img) > 0

\* the jitter strength is zero, as a number or as a pair of zeros
ZeroStrength(strength) ==
    IF strength[1] = "tuple" THEN strength[2] = 0 /\ strength[3] = 0
    ELSE strength[2] = 0

\* C5: in a direct construction, zero jitter strength (a number or a pair of
\* zeros) means add_line_jitter is not called and no random number is drawn;
\* zero drift speed means neither add_drift nor the recentring runs; with
\* all three artifact parameters zero the grid is the plain meshgrid.
C5_ZeroStepsSkipped ==
    (spc = "idle" /\ GridDone) =>
        /\ ZeroStrength(self.jitter_strength) => jitterCalls = 0 /\ rngDraws = 0
        /\ self.drift_speed = 0 => drift = <<>> /\ stepLog \in {<<>>, <<"jitter">>, <<"rotation">>, <<"jitter", "rotation">>}
        /\ (self.jitter_strength = Scalar(0) /\ self.scan_rotation = 0
            /\ self.drift_speed = 0) =>
              self.probe_positions =
                  PlainGrid(self.atom_positions, self.margin, self.square,
                            self.pixel_size)

\* C6: in get_rotation_series the random drift angle is drawn once when
\* drift_angle is None and never when it is given; every ImageModel of the
\* series gets the same drift_vector (that of random_angle), drift_speed and
\* jitter_strength, the members differ in scan_rotation only, and the angle
\* returned is the one the members used.
C6_SharedDrift ==
    spc \in {"loop", "done"} =>
        /\ angleDraws = IF sargs.drift_angle = <<>> THEN 1 ELSE 0
        /\ sargs.drift_angle # <<>> => random_angle = sargs.drift_angle[1]
        /\ \A i \in 1..Len(members) :
            /\ members[i].drift_vector = DriftVector(random_angle)
            /\ members[i].drift_speed = sargs.drift_speed
            /\ members[i].jitter_strength = sargs.jitter_strength
            /\ members[i].scan_rotation =
                 Linspace(sargs.minScanAngle, sargs.maxScanAngle, sargs.nImages)[i]
            /\ \A j \in 1..Len(members) :
                /\ [members[j] EXCEPT !.scan_rotation = members[i].scan_rotation]
                     = members[i]
                /\ i # j => members[i].scan_rotation # members[j].scan_rotation
        /\ pc \notin {"idle", "raised"} =>
            /\ self.drift_vector = DriftVector(random_angle)
            /\ self.drift_speed = sargs.drift_speed
            /\ self.jitter_strength = sargs.jitter_strength
        /\ spc = "done" =>
            /\ sret.random_angle = random_angle
            /\ Len(members) = sargs.nImages

C6_Witness ==
    /\ spc = "done"
    /\ Len(members) = 4
    /\ sargs.drift_angle = <<>>
    /\ angleDraws = 1
    /\ sargs.drift_speed = 1
    /\ sret.random_angle = 90

Abs(x) == IF x < 0 THEN -x ELSE x

\* the displacements of the pixels of each channel between the grid before
\* the drift and the finished grid
NetDisplacement ==
    LET base == GridBeforeDrift(self, jitter)
        final == self.probe_positions
    IN  [c \in 1..2 |->
            UNION {{final[c][i][j] - base[c][i][j] : j \in 1..Len(final[c][i])} :
                      i \in 1..Len(final[c])}]

\* C7: after the recentring the displacement applied to the grid (drift
\* minus half the offset) has maximum + minimum = 0 on each axis, and the
\* offset of an axis is the extreme of the drift of larger magnitude.
C7_CentredDrift ==
    (GridDone /\ NumberTruthy(self.drift_speed) /\ self.centre_drift) =>
        LET net == NetDisplacement
        IN  \A c \in 1..2 :
                /\ MaxOf(net[c]) + MinOf(net[c]) = 0
                /\ Offset(drift[c]) \in Entries(drift[c])
                /\ \A x \in Entries(drift[c]) : Abs(x) <= Abs(Offset(drift[c]))

C7_Witness ==
    /\ GridDone
    /\ stepLog = <<"rotation", "drift", "recentre">>
    /\ self.drift_vector = <<-1, 1>>
    /\ PixelCount(self.probe_positions[1]) > 4
    /\ MaxOf(NetDisplacement[1]) > 0

\* the sum over all atoms of A times the Gaussian factor at one point,
\* taken from the last atom to the first
RECURSIVE PixelSum(_, _, _, _, _)
PixelSum(x, y, parameters, a, D) ==
    IF a = 0 THEN 0
    ELSE Gaussian2D(x, y, parameters[1][a], parameters[2][a], parameters[3][a],
                    parameters[4][a], D)
         + PixelSum(x, y, parameters, a - 1, D)

\* the image has the shape of the grid and holds the sum over all atoms
IsAtomSum(img, obj) ==
    LET shape == ShapeOf(obj.probe_positions)
        D == Den(<<shape[2], shape[3]>>)
    IN  /\ Len(img) = shape[2]
        /\ \A i \in 1..Len(img) :
            /\ Len(img[i]) = shape[3]
            /\ \A j \in 1..Len(img[i]) :
                 img[i][j] = PixelSum(obj.probe_positions[1][i][j],
                                      obj.probe_positions[2][i][j],
                                      obj.parameters, obj.number_of_atoms, D)

\* C8: on every instance generate() and generate_cupy_ram() give the same
\* image, of the shape of the grid, whose value at every pixel is the sum
\* over all atoms of A times the Gaussian factor.
C8_StrategiesAgree ==
    /\ Len(ret) > 0 => IsAtomSum(ret[Len(ret)].img, self)
    /\ \A p \in 1..Len(ret) : \A q \in 1..Len(ret) :
          ret[p].method # ret[q].method => ret[p].img = ret[q].img

C8_Witness ==
    /\ Len(ret) = 2
    /\ ret[1].method = "generate"
    /\ ret[2].method = "generate_cupy_ram"
    /\ self.number_of_atoms = 2
    /\ self.atom_positions[1] # self.atom_positions[2]
    /\ self.atom_numbers[1] # self.atom_numbers[2]
    /\ \E i \in 1..Len(ret[2].img) : \E j \in 1..Len(ret[2].img[i]) : ret[2].img[i][j] > 0

\* the attributes __init__ assigns
InstanceAttrs ==
    {"atom_positions", "atom_numbers", "number_of_atoms", "pixel_size", "sigma",
     "power", "jitter_strength", "jitter_horizontal", "jitter_vertical",
     "drift_speed", "drift_vector", "centre_drift", "scan_rotation", "square",
     "margin", "probe_positions", "parameters"}

\* a step in which generate or generate_cupy_ram returns
GenerateCall ==
    \/ Len(ret') > Len(ret)
    \/ Len(images') > Len(images)

\* C9: once __init__ has finished, no call of generate or generate_cupy_ram
\* changes any attribute of the instance (grid, parameters, atom data) or
\* adds one (no image is kept on it), and all calls on one instance return
\* equal images.
C9_GeneratePure ==
    /\ [](Built => DOMAIN self = InstanceAttrs)
    /\ [](\A p \in 1..Len(ret) : \A q \in 1..Len(ret) : ret[p].img = ret[q].img)
    /\ [][(GenerateCall \/ (Built /\ Built')) => self' = self]_vars

C9_Witness ==
    /\ Len(ret) = 2
    /\ ret[1].method = "generate"
    /\ ret[2].method = "generate"
    /\ \E i \in 1..Len(ret[2].img) : \E j \in 1..Len(ret[2].img[i]) : ret[2].img[i][j] > 0

\* C10: the field add_drift returns has shape (2, H, W); its entry at
\* channel c, row i, column j is drift_speed / (H*W) * (-drift_vector[c]) * k
\* with k the row-major index i*W + j (counted from 0), so the first pixel is
\* not displaced; speed 0 gives the zero field and m times the speed gives m
\* times the field.
C10_DriftField ==
    (pc = "recentre" /\ NumberTruthy(self.drift_speed)) =>
        LET shape == ShapeOf(self.probe_positions)
            H == shape[2]
            W == shape[3]
            v == self.drift_vector
            sp == self.drift_speed
        IN  /\ Len(drift) = 2
            /\ \A c \in 1..2 :
                /\ Len(drift[c]) = H
                /\ \A i \in 1..H :
                    /\ Len(drift[c][i]) = W
                    /\ \A j \in 1..W :
                         drift[c][i][j] * (H * W)
                           = Den(<<H, W>>) * sp * (-v[c]) * ((i - 1) * W + (j - 1))
                /\ H * W > 0 => drift[c][1][1] = 0
            /\ add_drift(<<H, W>>, v, 0) = <<Zeros(<<H, W>>), Zeros(<<H, W>>)>>
            /\ \A m \in 1..MaxFactor :
                 add_drift(<<H, W>>, v, m * sp)
                   = [c \in 1..2 |-> [i \in 1..H |-> [j \in 1..W |-> m * drift[c][i][j]]]]

C10_Witness ==
    /\ pc = "recentre"
    /\ stepLog = <<"drift">>
    /\ ShapeOf(drift)[2] >= 2
    /\ ShapeOf(drift)[3] > ShapeOf(drift)[2]
    /\ self.drift_vector = <<1, -1>>
    /\ drift[1][2][1] < 0
    /\ drift[2][2][1] > 0

====
